---- MODULE Spec2Model ----
(***************************************************************************)
(* Model of src/app.py: the fee-aware auto trader (api_auto_status), the   *)
(* candle history endpoint with its fallback wave (api_history), the       *)
(* authenticated brokerage helpers and the trade/accounts endpoints.       *)
(*                                                                         *)
(* Every handler is an asyncio coroutine: between two awaits it runs       *)
(* atomically, and at an await that really suspends (an HTTP round trip)   *)
(* other handlers may run.  api_auto_status is therefore split at its      *)
(* three round trips (candles GET, /accounts GET, /orders POST).           *)
(*                                                                         *)
(* Numbers.  Python floats are modelled by exact scaled integers:          *)
(*   prices    in units of 1/PriceScale dollars,                           *)
(*   balances  in units of 1/BalScale,                                     *)
(*   time      in minutes since the start of the run.                      *)
(* Comparisons of quotients are cross-multiplied (all divisors > 0).       *)
(***************************************************************************)
EXTENDS Integers, Sequences, FiniteSets, TLC

\* ------------------------------------------------------------------ bounds
NumReq      == 2     \* status requests that can be in flight at once
MaxClock    == 15    \* the clock stops advancing here
TickMinutes == 5     \* minutes per Tick

\* ------------------------------------------------------- program constants
FEE_RATE_MILLI       == 6     \* FEE_RATE = 0.006, in thousandths
FEE_BUFFER_PCT_TENTH == 5     \* FEE_BUFFER_PCT = 0.5, in tenths of a percent
MIN_QUOTE            == 5
COOLDOWN_MINUTES     == 15
WINDOW               == 12    \* min(12, len(closes))
FALLBACK_POINTS      == 60    \* range(60)
FALLBACK_BASE        == 100   \* base = 100.0
FALLBACK_STEP_MIN    == 10    \* timedelta(minutes=10 * (60 - i))

PriceScale == 60 * 5          \* represents base*1.002, base*0.998, base*(1+0.01*i/60) exactly
BalScale   == 100 * 100       \* balances to four decimals
None       == 0 - 1           \* Python None where a number may stand

Req == 1 .. NumReq

VARIABLES
    HAS_CREDS,        \* module constant, fixed at import time
    AUTO_TRADER_ON,   \* global
    LAST_TRADE_AT,    \* global: None or a time
    clock,            \* now_utc()
    pc,               \* pc[r]: where status request r is suspended
    loc,              \* loc[r]: the locals of status request r
    reply,            \* the response returned by the step just taken (NoReply: none)
    sent,             \* the authenticated request sent by the step just taken (NoSent: none)
    candleReq,        \* the candle request most recently sent by a direct api_history call
    candleResp,       \* what that candle request came to
    histResp          \* the response of the most recent direct api_history call

vars == << HAS_CREDS, AUTO_TRADER_ON, LAST_TRADE_AT, clock, pc, loc, reply,
           sent, candleReq, candleResp, histResp >>

\* ------------------------------------------------------------------ helpers
RECURSIVE SumSeq(_)
SumSeq(s) == IF s = << >> THEN 0 ELSE Head(s) + SumSeq(Tail(s))

RECURSIVE Reverse(_)
Reverse(s) == IF s = << >> THEN << >> ELSE Append(Reverse(Tail(s)), Head(s))

RECURSIVE Pow10(_)
Pow10(n) == IF n = 0 THEN 1 ELSE 10 * Pow10(n - 1)

Min2(a, b) == IF a < b THEN a ELSE b

LastN(s, n) == SubSeq(s, Len(s) - n + 1, Len(s))

\* str.upper() on the strings the model feeds in
Upper(s) ==
    CASE s = "1d"   -> "1D"
      [] s = "1w"   -> "1W"
      [] s = "1m"   -> "1M"
      [] s = "6m"   -> "6M"
      [] s = "1y"   -> "1Y"
      [] s = "buy"  -> "BUY"
      [] s = "sell" -> "SELL"
      [] s = "Sell" -> "SELL"
      [] OTHER      -> s

\* "BTC-USD" -> "BTC"; a pair without "-" is returned whole
parse_base_from_pair(pair) ==
    CASE pair = "BTC-USD" -> "BTC"
      [] pair = "ETH-USD" -> "ETH"
      [] OTHER            -> pair

\* "BTC-USD" -> "USD"; a pair without "-" gives "USD"
parse_quote_from_pair(pair) ==
    CASE pair = "BTC-USD" -> "USD"
      [] pair = "ETH-USD" -> "USD"
      [] OTHER            -> "USD"

\* ------------------------------------------------------------------ inputs
Products == { "BTC-USD", "ETH-USD" }

\* the pair that client r polls
ProductOf(r) == IF r % 2 = 1 THEN "BTC-USD" ELSE "ETH-USD"

\* close series the exchange may report, oldest first, in whole dollars
\* (None: a candle whose close is null)
CloseSeries ==
    { << >>,
      << 100 >>,
      << 100, 100, 98 >>,
      << 100, None, 97 >>,
      << 100, 100, 105 >>,
      << 200, 100, 100, 100, 100, 100, 100, 100, 100, 100, 100, 100, 95 >> }

Px(d) == IF d = None THEN None ELSE d * PriceScale

\* exchange candles: [ time, low, high, open, close, volume ], newest first
CandleRows(series) ==
    [ k \in 1 .. Len(series) |->
        LET j == Len(series) - k + 1
        IN  << j * 900, Px(series[j]), Px(series[j]), Px(series[j]), Px(series[j]), 1 >> ]

\* what the candle request can come to
CandleOutcomes ==
    { [ kind |-> "timeout",   status |-> 0,   rows |-> << >> ],
      [ kind |-> "malformed", status |-> 200, rows |-> << >> ],
      [ kind |-> "rows",      status |-> 500, rows |-> << >> ] }
    \cup { [ kind |-> "rows", status |-> 200, rows |-> CandleRows(s) ] : s \in CloseSeries }

RangeKeys == { "1D", "1W", "1M", "6M", "1Y", "1y", "1w", "5Y" }

\* brokerage /accounts listings; value: a number ("num"), text that float()
\* rejects ("text"), or no available_balance value at all ("missing")
Acct(cur, kind, v) == [ currency |-> cur, kind |-> kind, v |-> v ]

AccountLists ==
    { << >>,
      << Acct("USD", "num", 50300), Acct("BTC", "num", 500), Acct("ETH", "num", 500) >>,
      << Acct("USD", "text", 0), Acct("BTC", "num", 450), Acct("ETH", "missing", 0) >>,
      << Acct("USD", "num", 50299), Acct("USD", "num", 50300), Acct("BTC", "missing", 0) >> }

\* what an authenticated GET /accounts can come to
GetOutcomes ==
    { [ kind |-> "timeout",    accounts |-> << >> ],
      [ kind |-> "http_error", accounts |-> << >> ] }
    \cup { [ kind |-> "json", accounts |-> a ] : a \in AccountLists }

\* what an authenticated POST /orders can come to
PostOutcomes == { "ok", "http_error", "timeout" }

\* payloads of direct api_trade calls; "" is an absent product or side, None an
\* absent size; sizes count 1e-8 units ("10" dollars, "0.001" coins)
SizeUnit == 100000000

Payload(product_id, side, quote_size, base_size) ==
    [ product_id |-> product_id, side |-> side,
      quote_size |-> quote_size, base_size |-> base_size ]

TradePayloads ==
    { Payload("BTC-USD", "buy", 10 * SizeUnit, None),
      Payload("BTC-USD", "SELL", None, SizeUnit \div 1000),
      Payload("BTC-USD", "BUY", None, None),
      Payload("BTC-USD", "hold", 10 * SizeUnit, None),
      Payload("", "BUY", 10 * SizeUnit, None) }

\* ----------------------------------------------------------- api_history
Granularity(range_key) ==
    CASE range_key = "1D" -> 900
      [] range_key = "1W" -> 3600
      [] range_key = "1M" -> 21600
      [] range_key = "6M" -> 86400
      [] OTHER            -> 86400

StartDays(range_key) ==
    CASE range_key = "1D" -> 1
      [] range_key = "1W" -> 7
      [] range_key = "1M" -> 30
      [] range_key = "6M" -> 180
      [] OTHER            -> 300

\* the request api_history sends for (product_id, range_key) at time now
HistoryParams(product_id, range_key, now) ==
    LET rk == Upper(range_key)
    IN  [ pair        |-> product_id,
          range_key   |-> rk,
          start       |-> now - StartDays(rk) * 24 * 60,
          end         |-> now,
          granularity |-> Granularity(rk) ]

\* the wave with range(1, 60) for range(60)
FallbackPoints_OffByOne(now) ==
    LET base == FALLBACK_BASE * PriceScale
    IN  [ i \in 1 .. FALLBACK_POINTS - 1 |->
            [ t |-> [ at |-> now - FALLBACK_STEP_MIN * (FALLBACK_POINTS - i), suffix |-> "" ],
              o |-> base,
              h |-> (base * 1002) \div 1000,
              l |-> (base * 998) \div 1000,
              c |-> base + (base * i) \div (100 * FALLBACK_POINTS) ] ]

\* "fallback simple wave"
FallbackPoints(now) ==
    LET base == FALLBACK_BASE * PriceScale
    IN  [ k \in 1 .. FALLBACK_POINTS |->
            LET i == k - 1
            IN  [ t |-> [ at |-> now - FALLBACK_STEP_MIN * (FALLBACK_POINTS - i), suffix |-> "" ],
                  o |-> base,
                  h |-> (base * 1002) \div 1000,
                  l |-> (base * 998) \div 1000,
                  c |-> base + (base * i) \div (100 * FALLBACK_POINTS) ] ]

\* candles_raw.reverse(), then one point per candle
CandlePoints(rows) ==
    LET raw == Reverse(rows)
    IN  [ k \in 1 .. Len(raw) |->
            [ t |-> [ at |-> raw[k][1], suffix |-> "Z" ],
              o |-> raw[k][4],
              h |-> raw[k][3],
              l |-> raw[k][2],
              c |-> raw[k][5] ] ]

\* api_history whose fallback answers "ok": True
api_history_FallbackOk(now, outcome) ==
    IF outcome.kind = "timeout"
    THEN [ raised |-> TRUE, ok |-> FALSE, fallback |-> FALSE, points |-> << >> ]
    ELSE IF outcome.status # 200
    THEN [ raised |-> FALSE, ok |-> TRUE, fallback |-> TRUE, points |-> FallbackPoints(now) ]
    ELSE IF outcome.kind = "malformed"
    THEN [ raised |-> TRUE, ok |-> FALSE, fallback |-> FALSE, points |-> << >> ]
    ELSE [ raised |-> FALSE, ok |-> TRUE, fallback |-> FALSE, points |-> CandlePoints(outcome.rows) ]

\* what api_history returns (or that it raises) once the candle request is over
api_history(now, outcome) ==
    IF outcome.kind = "timeout"
    THEN [ raised |-> TRUE, ok |-> FALSE, fallback |-> FALSE, points |-> << >> ]
    ELSE IF outcome.status # 200
    THEN [ raised |-> FALSE, ok |-> FALSE, fallback |-> TRUE, points |-> FallbackPoints(now) ]
    ELSE IF outcome.kind = "malformed"
    THEN [ raised |-> TRUE, ok |-> FALSE, fallback |-> FALSE, points |-> << >> ]
    ELSE [ raised |-> FALSE, ok |-> TRUE, fallback |-> FALSE, points |-> CandlePoints(outcome.rows) ]

\* ------------------------------------------------- brokerage (authenticated)
\* cb_auth_get / cb_auth_post return {"error": "no_creds"} before sending
\* anything when HAS_CREDS is false
cb_auth_sends(creds) == creds

\* cb_auth_get's return value once GET /accounts is over (the timeout is
\* raised by httpx and is dealt with by the callers' steps)
cb_auth_get(outcome) ==
    IF outcome.kind = "http_error"
    THEN [ error |-> "http_error", accounts |-> << >> ]
    ELSE [ error |-> "", accounts |-> outcome.accounts ]

\* cb_auth_post's return value once POST /orders is over
cb_auth_post(outcome) ==
    IF outcome = "http_error" THEN [ error |-> "http_error" ] ELSE [ error |-> "" ]

\* the loop of get_account_balance: the first account in the currency decides
RECURSIVE BalanceIn(_, _)
BalanceIn(accounts, currency) ==
    IF accounts = << >> THEN 0
    ELSE IF Head(accounts).currency = currency
         THEN (IF Head(accounts).kind = "num" THEN Head(accounts).v ELSE 0)
         ELSE BalanceIn(Tail(accounts), currency)

\* get_account_balance after its GET returned res
get_account_balance(res, currency) ==
    IF res.error # "" THEN 0 ELSE BalanceIn(res.accounts, currency)

\* which way get_account_balance came to its value
RECURSIVE LookupIn(_, _)
LookupIn(accounts, currency) ==
    IF accounts = << >> THEN "unlisted"
    ELSE IF Head(accounts).currency = currency
         THEN (CASE Head(accounts).kind = "num"  -> "value"
                 [] Head(accounts).kind = "text" -> "unparsable"
                 [] OTHER                        -> "missing")
         ELSE LookupIn(Tail(accounts), currency)

Lookup(res, currency) ==
    IF res.error # "" THEN "brokerage_error" ELSE LookupIn(res.accounts, currency)

\* ------------------------------------------------------------- api_trade
\* api_trade without its HAS_CREDS check
api_trade_request_NoCredsCheck(creds, payload) ==
    LET side == Upper(payload.side)
    IN  IF payload.product_id = "" \/ side \notin { "BUY", "SELL" }
        THEN [ send |-> FALSE, error |-> "bad_request", body |-> << >> ]
        ELSE IF payload.quote_size = None /\ payload.base_size = None
        THEN [ send |-> FALSE, error |-> "need_quote_or_base", body |-> << >> ]
        ELSE [ send  |-> TRUE,
               error |-> "",
               body  |-> [ product_id |-> payload.product_id,
                           side       |-> side,
                           order_configuration |->
                               IF payload.quote_size # None
                               THEN [ key |-> "quote_size", size |-> payload.quote_size ]
                               ELSE [ key |-> "base_size", size |-> payload.base_size ] ] ]

\* api_trade up to its await: either an immediate response or the order body
api_trade_request(creds, payload) ==
    LET side == Upper(payload.side)
    IN  IF ~creds
        THEN [ send |-> FALSE, error |-> "missing_coinbase_creds", body |-> << >> ]
        ELSE IF payload.product_id = "" \/ side \notin { "BUY", "SELL" }
        THEN [ send |-> FALSE, error |-> "bad_request", body |-> << >> ]
        ELSE IF payload.quote_size = None /\ payload.base_size = None
        THEN [ send |-> FALSE, error |-> "need_quote_or_base", body |-> << >> ]
        ELSE [ send  |-> TRUE,
               error |-> "",
               body  |-> [ product_id |-> payload.product_id,
                           side       |-> side,
                           order_configuration |->
                               IF payload.quote_size # None
                               THEN [ key |-> "quote_size", size |-> payload.quote_size ]
                               ELSE [ key |-> "base_size", size |-> payload.base_size ] ] ]

\* api_trade that answers ok whatever the brokerage said
api_trade_response_AlwaysOk(r) == [ ok |-> TRUE, error |-> "" ]

\* api_trade's response to what cb_auth_post returned
api_trade_response(r) ==
    IF r.error # "" THEN [ ok |-> FALSE, error |-> r.error ] ELSE [ ok |-> TRUE, error |-> "" ]

\* -------------------------------------------------------- the signal policy
\* closes = [float(p["c"]) for p in points if p.get("c") is not None]
Closes(points) == SelectSeq([ k \in 1 .. Len(points) |-> points[k].c ], LAMBDA c : c # None)

Window(closes) == Min2(WINDOW, Len(closes))

\* diff_pct = DiffNum / DiffDen, with recent_avg = sum / window
DiffNum(closes) ==
    100 * (closes[Len(closes)] * Window(closes) - SumSeq(LastN(closes, Window(closes))))

DiffDen(closes) == SumSeq(LastN(closes, Window(closes)))

\* the round-trip fee alone, without the buffer
MinMovePctTenth_NoBuffer == (FEE_RATE_MILLI * 2 * 100) \div 100

\* min_move_pct, in tenths of a percent: FEE_RATE * 2 * 100 + FEE_BUFFER_PCT
MinMovePctTenth == (FEE_RATE_MILLI * 2 * 100) \div 100 + FEE_BUFFER_PCT_TENTH

IsDip(closes)  == DiffNum(closes) * 10 <= (0 - MinMovePctTenth) * DiffDen(closes)

IsPump(closes) == DiffNum(closes) * 10 >= MinMovePctTenth * DiffDen(closes)

\* the two sides swapped
Signal_SwappedSides(closes) ==
    IF IsDip(closes) THEN "SELL" ELSE IF IsPump(closes) THEN "BUY" ELSE "HOLD"

Signal(closes) ==
    IF IsDip(closes) THEN "BUY" ELSE IF IsPump(closes) THEN "SELL" ELSE "HOLD"

SignalReason(closes) ==
    IF IsDip(closes) THEN "dip" ELSE IF IsPump(closes) THEN "pump" ELSE "move < required"

\* LAST_TRADE_AT and now - LAST_TRADE_AT < timedelta(minutes=COOLDOWN_MINUTES)
InCooldown(last, now) == last # None /\ now - last < COOLDOWN_MINUTES

\* bal < MIN_QUOTE, the fee forgotten
BuyShort_NoFee(bal) == bal * 1000 < MIN_QUOTE * 1000 * BalScale

\* bal < MIN_QUOTE * (1 + FEE_RATE)
BuyShort(bal) == bal * 1000 < MIN_QUOTE * (1000 + FEE_RATE_MILLI) * BalScale

\* bal < (MIN_QUOTE / current_price) * 1.02
SellShort(bal, price) == bal * price * 100 < MIN_QUOTE * PriceScale * 102 * BalScale

\* num / den to the given number of decimals, as a count of the last decimal
\* (rounded half up)
RECURSIVE Fixed(_, _, _)
Fixed(num, den, decimals) ==
    IF decimals = 0
    THEN (2 * num + den) \div (2 * den)
    ELSE LET rest == Fixed((num % den) * 10, den, decimals - 1)
             unit == SizeUnit \div Pow10(8 - decimals)
         IN  (num \div den) * unit + rest

\* f"{base_needed:.8f}", as a count of 1e-8 units
BaseSize(price) == Fixed(MIN_QUOTE * PriceScale * 102, price * 100, 8)

\* ------------------------------------------------------------------ state
IdleLoc ==
    [ product_id |-> "", closes |-> << >>, fallback |-> FALSE,
      now |-> None, action |-> "", current_price |-> None, bal |-> None, lookup |-> "",
      post |-> "" ]

NoReply == [ handler |-> "none", raised |-> FALSE ]

NoSent  == [ method |-> "", path |-> "", by |-> "" ]

NoHist  == [ raised |-> FALSE, ok |-> FALSE, fallback |-> FALSE, points |-> << >> ]

NoCandleReq ==
    [ pair |-> "", range_key |-> "", start |-> None, end |-> None, granularity |-> 0 ]

NoCandleResp == [ kind |-> "", status |-> 0, rows |-> << >> ]

Init ==
    /\ HAS_CREDS \in BOOLEAN
    /\ AUTO_TRADER_ON = FALSE
    /\ LAST_TRADE_AT = None
    /\ clock = 0
    /\ pc = [ r \in Req |-> "idle" ]
    /\ loc = [ r \in Req |-> IdleLoc ]
    /\ reply = NoReply
    /\ sent = NoSent
    /\ candleReq = NoCandleReq
    /\ candleResp = NoCandleResp
    /\ histResp = NoHist

\* a response of api_auto_status
StatusBody(ok, auto_on, action, reason, price, executed) ==
    [ keys     |-> { "ok", "auto_on", "action", "reason" }
                   \cup (IF price = None THEN { } ELSE { "price" })
                   \cup (IF executed THEN { "executed" } ELSE { }),
      ok       |-> ok,
      auto_on  |-> auto_on,
      action   |-> action,
      reason   |-> reason,
      price    |-> price,
      executed |-> executed ]

\* what a response is remembered with: the closes it was computed from, whether
\* the history was the fallback wave, the balance and how it was come by, and
\* what the order request came to
Seen(l) ==
    [ closes |-> l.closes, fallback |-> l.fallback, bal |-> l.bal, lookup |-> l.lookup,
      post |-> l.post ]

\* request r returns body; l: its locals at the return
Return(r, l, body) ==
    /\ reply' = [ handler |-> "api_auto_status", raised |-> FALSE,
                  body |-> body, locals |-> Seen(l) ]
    /\ pc' = [ pc EXCEPT ![r] = "idle" ]
    /\ loc' = [ loc EXCEPT ![r] = IdleLoc ]

\* request r ends in an unhandled exception (HTTP 500)
Raise(r, l) ==
    /\ reply' = [ handler |-> "api_auto_status", raised |-> TRUE, locals |-> Seen(l) ]
    /\ pc' = [ pc EXCEPT ![r] = "idle" ]
    /\ loc' = [ loc EXCEPT ![r] = IdleLoc ]

\* ------------------------------------------------------ api_auto_status
\* entry: api_history is called and suspends in its candle request
StatusStart(r, product_id) ==
    /\ pc[r] = "idle"
    /\ pc' = [ pc EXCEPT ![r] = "history" ]
    /\ loc' = [ loc EXCEPT ![r] = [ IdleLoc EXCEPT !.product_id = product_id ] ]
    /\ reply' = NoReply
    /\ sent' = NoSent
    /\ UNCHANGED << HAS_CREDS, AUTO_TRADER_ON, LAST_TRADE_AT, clock, candleReq, candleResp, histResp >>

\* the auto payload handed to api_trade
AutoPayload(l) ==
    IF l.action = "BUY"
    THEN Payload(l.product_id, "BUY", MIN_QUOTE * SizeUnit, None)
    ELSE Payload(l.product_id, "SELL", None, BaseSize(l.current_price))

\* is the balance too small for the trade of l.action?
Short(l, bal) ==
    IF l.action = "BUY" THEN BuyShort(bal) ELSE SellShort(bal, l.current_price)

\* from the balance (bal) on: HOLD when it is short, else api_trade is called,
\* which either answers at once or sends the order and suspends
FromBalance(r, l0, bal, lookup) ==
    LET l   == [ l0 EXCEPT !.bal = bal, !.lookup = lookup ]
        req == api_trade_request(HAS_CREDS, AutoPayload(l))
    IN  IF Short(l, bal)
        THEN /\ Return(r, l, StatusBody(TRUE, TRUE, "HOLD", "not enough balance",
                                        l.current_price, FALSE))
             /\ sent' = NoSent
        ELSE IF req.send /\ cb_auth_sends(HAS_CREDS)
        THEN /\ pc' = [ pc EXCEPT ![r] = "order" ]
             /\ loc' = [ loc EXCEPT ![r] = l ]
             /\ sent' = [ method |-> "POST", path |-> "/orders", by |-> "api_auto_status",
                          body |-> req.body ]
             /\ reply' = NoReply
        ELSE /\ Return(r, l, StatusBody(FALSE, TRUE, l.action, "trade failed",
                                        l.current_price, FALSE))
             /\ sent' = NoSent

\* the candle request is over: api_history returns and api_auto_status runs on
\* to its next round trip or to its return.  (api_history stamps the fallback
\* points with the time of its entry; api_auto_status never reads a point's t,
\* so the time of the return stands in for it here.)
HistoryReturn(r, outcome) ==
    /\ pc[r] = "history"
    /\ LET hist   == api_history(clock, outcome)
           closes == Closes(hist.points)
           l0     == [ loc[r] EXCEPT !.fallback = hist.fallback ]
           l      == [ l0 EXCEPT !.closes = closes,
                                 !.current_price = closes[Len(closes)],
                                 !.now = clock,
                                 !.action = Signal(closes) ]
       IN  IF hist.raised
           THEN /\ Raise(r, l0)
                /\ sent' = NoSent
           ELSE IF ~hist.ok
           THEN /\ Return(r, l0, StatusBody(FALSE, AUTO_TRADER_ON, "HOLD", "no_history",
                                            None, FALSE))
                /\ sent' = NoSent
           ELSE IF closes = << >>
           THEN /\ Return(r, l0, StatusBody(FALSE, AUTO_TRADER_ON, "HOLD", "no_closes",
                                            None, FALSE))
                /\ sent' = NoSent
           ELSE IF InCooldown(LAST_TRADE_AT, clock)
           THEN /\ Return(r, [ l EXCEPT !.action = "HOLD" ],
                          StatusBody(TRUE, AUTO_TRADER_ON, "HOLD", "cooldown",
                                     l.current_price, FALSE))
                /\ sent' = NoSent
           ELSE IF ~AUTO_TRADER_ON \/ l.action = "HOLD"
           THEN /\ Return(r, l, StatusBody(TRUE, AUTO_TRADER_ON, l.action,
                                           SignalReason(closes), l.current_price, FALSE))
                /\ sent' = NoSent
           ELSE IF ~cb_auth_sends(HAS_CREDS)
           THEN FromBalance(r, l, 0, "no_creds")
           ELSE /\ pc' = [ pc EXCEPT ![r] = "balance" ]
                /\ loc' = [ loc EXCEPT ![r] = l ]
                /\ sent' = [ method |-> "GET", path |-> "/accounts",
                             by |-> "get_account_balance" ]
                /\ reply' = NoReply
    /\ UNCHANGED << HAS_CREDS, AUTO_TRADER_ON, LAST_TRADE_AT, clock, candleReq, candleResp, histResp >>

\* GET /accounts is over
BalanceReturn(r, outcome) ==
    /\ pc[r] = "balance"
    /\ LET l        == loc[r]
           currency == IF l.action = "BUY" THEN parse_quote_from_pair(l.product_id)
                                           ELSE parse_base_from_pair(l.product_id)
           res      == cb_auth_get(outcome)
       IN  IF outcome.kind = "timeout"
           THEN /\ Raise(r, [ l EXCEPT !.lookup = "timeout" ])
                /\ sent' = NoSent
           ELSE FromBalance(r, l, get_account_balance(res, currency), Lookup(res, currency))
    /\ UNCHANGED << HAS_CREDS, AUTO_TRADER_ON, LAST_TRADE_AT, clock, candleReq, candleResp, histResp >>

\* POST /orders is over
OrderReturn(r, outcome) ==
    /\ pc[r] = "order"
    /\ LET l   == [ loc[r] EXCEPT !.post = outcome ]
           res == api_trade_response(cb_auth_post(outcome))
       IN  IF outcome = "timeout"
           THEN /\ Raise(r, l)
                /\ UNCHANGED LAST_TRADE_AT
           ELSE IF res.ok
           THEN /\ LAST_TRADE_AT' = l.now
                /\ Return(r, l, StatusBody(TRUE, TRUE, l.action, SignalReason(l.closes),
                                           l.current_price, TRUE))
           ELSE /\ Return(r, l, StatusBody(FALSE, TRUE, l.action, "trade failed",
                                           l.current_price, FALSE))
                /\ UNCHANGED LAST_TRADE_AT
    /\ sent' = NoSent
    /\ UNCHANGED << HAS_CREDS, AUTO_TRADER_ON, clock, candleReq, candleResp, histResp >>

\* ------------------------------------------------- the other handlers
\* a direct call of POST /api/trade, taken in one step: between its request
\* and its response it neither reads nor writes the globals
ApiTrade(payload, outcome) ==
    /\ LET req == api_trade_request(HAS_CREDS, payload)
       IN  IF req.send /\ cb_auth_sends(HAS_CREDS)
           THEN /\ sent' = [ method |-> "POST", path |-> "/orders", by |-> "api_trade",
                             body |-> req.body ]
                /\ reply' = IF outcome = "timeout"
                            THEN [ handler |-> "api_trade", raised |-> TRUE ]
                            ELSE [ handler |-> "api_trade", raised |-> FALSE,
                                   body |-> api_trade_response(cb_auth_post(outcome)) ]
           ELSE /\ reply' = [ handler |-> "api_trade", raised |-> FALSE,
                              body |-> [ ok |-> FALSE,
                                         error |-> IF req.send THEN "no_creds" ELSE req.error ] ]
                /\ sent' = NoSent
    /\ UNCHANGED << HAS_CREDS, AUTO_TRADER_ON, LAST_TRADE_AT, clock, pc, loc,
                    candleReq, candleResp, histResp >>

\* GET /api/accounts, in one step for the same reason
ApiAccounts(outcome) ==
    /\ IF ~HAS_CREDS
       THEN /\ reply' = [ handler |-> "api_accounts", raised |-> FALSE,
                          body |-> [ ok |-> FALSE, error |-> "missing_coinbase_creds",
                                     accounts |-> << >> ] ]
            /\ sent' = NoSent
       ELSE /\ sent' = [ method |-> "GET", path |-> "/accounts", by |-> "api_accounts" ]
            /\ reply' =
                 IF outcome.kind = "timeout"
                 THEN [ handler |-> "api_accounts", raised |-> TRUE ]
                 ELSE LET r == cb_auth_get(outcome)
                      IN  [ handler |-> "api_accounts", raised |-> FALSE,
                            body |-> [ ok |-> r.error = "", error |-> r.error,
                                       accounts |-> r.accounts ] ]
    /\ UNCHANGED << HAS_CREDS, AUTO_TRADER_ON, LAST_TRADE_AT, clock, pc, loc,
                    candleReq, candleResp, histResp >>

ApiAutoOn ==
    /\ AUTO_TRADER_ON' = TRUE
    /\ reply' = [ handler |-> "api_auto_on", raised |-> FALSE,
                  body |-> [ ok |-> TRUE, auto |-> TRUE ] ]
    /\ sent' = NoSent
    /\ UNCHANGED << HAS_CREDS, LAST_TRADE_AT, clock, pc, loc, candleReq, candleResp, histResp >>

ApiAutoOff ==
    /\ AUTO_TRADER_ON' = FALSE
    /\ reply' = [ handler |-> "api_auto_off", raised |-> FALSE,
                  body |-> [ ok |-> TRUE, auto |-> FALSE ] ]
    /\ sent' = NoSent
    /\ UNCHANGED << HAS_CREDS, LAST_TRADE_AT, clock, pc, loc, candleReq, candleResp, histResp >>

\* a direct call of GET /api/history, in one step (it touches no global)
ApiHistory(product_id, range_key, outcome) ==
    /\ candleReq' = HistoryParams(product_id, range_key, clock)
    /\ candleResp' = outcome
    /\ histResp' = api_history(clock, outcome)
    /\ reply' = NoReply
    /\ sent' = NoSent
    /\ UNCHANGED << HAS_CREDS, AUTO_TRADER_ON, LAST_TRADE_AT, clock, pc, loc >>

\* time passes
Tick ==
    /\ clock + TickMinutes <= MaxClock
    /\ clock' = clock + TickMinutes
    /\ reply' = NoReply
    /\ sent' = NoSent
    /\ UNCHANGED << HAS_CREDS, AUTO_TRADER_ON, LAST_TRADE_AT, pc, loc, candleReq, candleResp, histResp >>

\* ------------------------------------------------------- specifications
Next ==
    \/ \E r \in Req : StatusStart(r, ProductOf(r))
    \/ \E r \in Req, o \in CandleOutcomes : HistoryReturn(r, o)
    \/ \E r \in Req, o \in GetOutcomes : BalanceReturn(r, o)
    \/ \E r \in Req, o \in PostOutcomes : OrderReturn(r, o)
    \/ \E p \in TradePayloads, o \in PostOutcomes : ApiTrade(p, o)
    \/ \E o \in GetOutcomes : ApiAccounts(o)
    \/ ApiAutoOn
    \/ ApiAutoOff
    \/ Tick

Spec == Init /\ [][Next]_vars

\* the history endpoint on its own
NextHistory ==
    \/ \E p \in Products, k \in RangeKeys, o \in CandleOutcomes : ApiHistory(p, k, o)
    \/ Tick

SpecHistory == Init /\ [][NextHistory]_vars

\* ------------------------------------------------------------------ claims
IsStatusReply == reply.handler = "api_auto_status" /\ ~reply.raised

\* an auto-trader order goes out in this step
AutoOrderSent(r) == pc[r] # "order" /\ pc'[r] = "order"

\* [100, 100, 98] as closes
Closes_100_100_98 == << 100 * PriceScale, 100 * PriceScale, 98 * PriceScale >>

\* the claims' own reading of diff_pct against min_move_pct, in thousandths of
\* the mean's sum: diff_pct = 100 * (last * w - sum) / sum over the last
\* w = min(12, n) closes, min_move_pct = 2 * FEE_RATE * 100 + FEE_BUFFER_PCT
MoveSum(c)   == SumSeq(SubSeq(c, Len(c) - (IF Len(c) < 12 THEN Len(c) ELSE 12) + 1, Len(c)))

MoveTimes(c) == 1000 * (c[Len(c)] * (IF Len(c) < 12 THEN Len(c) ELSE 12) - MoveSum(c))

MinMoveTimes(c) == (2 * FEE_RATE_MILLI + FEE_BUFFER_PCT_TENTH) * MoveSum(c)

\* C1: every response of api_auto_status whose |diff_pct| is below min_move_pct
\* has action HOLD; BUY is returned only when diff_pct <= -min_move_pct and
\* SELL only when diff_pct >= +min_move_pct (a response without closes holds).
C1_FeeAwareSignal ==
    IsStatusReply =>
        LET c == reply.locals.closes
            a == reply.body.action
        IN  /\ a \in { "BUY", "SELL", "HOLD" }
            /\ c = << >> => a = "HOLD"
            /\ c # << >> =>
                 /\ (MoveTimes(c) < MinMoveTimes(c) /\ MoveTimes(c) > 0 - MinMoveTimes(c))
                        => a = "HOLD"
                 /\ a = "BUY" => MoveTimes(c) <= 0 - MinMoveTimes(c)
                 /\ a = "SELL" => MoveTimes(c) >= MinMoveTimes(c)

C1_Witness ==
    /\ IsStatusReply
    /\ reply.body.action = "BUY"
    /\ reply.body.executed
    /\ Len(reply.locals.closes) > 12

\* C2: no order is submitted by api_auto_status while less than
\* COOLDOWN_MINUTES have elapsed since the previous successful auto trade.
C2_CooldownBetweenTrades ==
    [][ \A r \in Req :
          AutoOrderSent(r) =>
              (LAST_TRADE_AT = None \/ clock - LAST_TRADE_AT >= COOLDOWN_MINUTES) ]_vars

C4_NeverSurfacesNeverEmpty ==
    (candleResp.kind \in { "timeout", "malformed" }
        \/ (candleResp.kind = "rows" /\ (candleResp.status # 200 \/ candleResp.rows = << >>)))
    => /\ ~histResp.raised
       /\ histResp.fallback
       /\ histResp.points # << >>

C6_BuyConfidence82 ==
    (IsStatusReply /\ reply.locals.closes = Closes_100_100_98
        /\ reply.body.reason # "cooldown")
    => /\ reply.body.action = "BUY"
       /\ "confidence" \in reply.body.keys

\* C6, amended: closes [100, 100, 98] give HOLD (the move, about -1.34 %, is
\* short of the 1.7 % required), and the response has no confidence field.
C6_HoldNoConfidence ==
    (IsStatusReply /\ reply.locals.closes = Closes_100_100_98)
    => /\ reply.body.action = "HOLD"
       /\ ~reply.body.executed
       /\ "confidence" \notin reply.body.keys

C6_Witness ==
    /\ IsStatusReply
    /\ reply.locals.closes = Closes_100_100_98
    /\ reply.body.reason = "move < required"
    /\ reply.body.auto_on

\* C7: at every moment an order is submitted by api_auto_status,
\* AUTO_TRADER_ON is true.
C7_OrdersOnlyWhileOn ==
    [][ \A r \in Req : AutoOrderSent(r) => AUTO_TRADER_ON ]_vars

\* C8: when api_history hands api_auto_status the fallback series, the request
\* returns ok = false, HOLD, no_history, sends nothing to the brokerage and
\* leaves LAST_TRADE_AT as it is.
C8_NoTradeOnFallback ==
    [][ \A r \in Req :
          (/\ pc[r] = "history"
           /\ pc'[r] # "history"
           /\ \/ loc'[r].fallback
              \/ (reply'.handler = "api_auto_status" /\ reply'.locals.fallback))
          => /\ pc'[r] = "idle"
             /\ reply'.handler = "api_auto_status"
             /\ ~reply'.raised
             /\ reply'.body.ok = FALSE
             /\ reply'.body.action = "HOLD"
             /\ reply'.body.reason = "no_history"
             /\ ~reply'.body.executed
             /\ sent' = NoSent
             /\ LAST_TRADE_AT' = LAST_TRADE_AT ]_vars

C8_Witness ==
    /\ IsStatusReply
    /\ reply.locals.fallback
    /\ reply.body.auto_on
    /\ HAS_CREDS

\* C9: without credentials nothing is sent to the brokerage, api_trade and
\* api_accounts answer missing_coinbase_creds, api_auto_status never reports
\* executed, and LAST_TRADE_AT stays None.
C9_NoCredsNothingSent ==
    ~HAS_CREDS =>
        /\ sent = NoSent
        /\ LAST_TRADE_AT = None
        /\ \A r \in Req : pc[r] \in { "idle", "history" }
        /\ reply.handler \in { "api_trade", "api_accounts" } =>
               /\ ~reply.raised
               /\ reply.body.ok = FALSE
               /\ reply.body.error = "missing_coinbase_creds"
        /\ reply.handler = "api_auto_status" =>
               /\ ~reply.raised => ~reply.body.executed

C9_Witness ==
    /\ ~HAS_CREDS
    /\ AUTO_TRADER_ON
    /\ IsStatusReply
    /\ reply.locals.lookup = "no_creds"
    /\ reply.body.action = "HOLD"

\* C10: LAST_TRADE_AT changes only in the step in which api_auto_status learns
\* that its order was accepted and answers executed; every other step (a HOLD,
\* a report, a rejected order, api_auto_on, api_auto_off, api_trade) leaves it.
C10_LastTradeOnlyOnSuccess ==
    [][ LAST_TRADE_AT' # LAST_TRADE_AT =>
          /\ reply'.handler = "api_auto_status"
          /\ ~reply'.raised
          /\ reply'.locals.post = "ok"
          /\ reply'.body.ok
          /\ reply'.body.executed
          /\ reply'.body.action \in { "BUY", "SELL" }
          /\ \E r \in Req : /\ pc[r] = "order"
                            /\ pc'[r] = "idle"
                            /\ LAST_TRADE_AT' = loc[r].now ]_vars

\* a rejected order has left no cooldown behind
C10_Witness ==
    /\ LAST_TRADE_AT = None
    /\ IsStatusReply
    /\ reply.locals.post = "http_error"
    /\ reply.body.reason = "trade failed"
    /\ reply.body.action = "SELL"

====
